---------------------------- MODULE Spec2Model ----------------------------
(***************************************************************************)
(* GeoAI guessing-game backend: the InferenceEngine of                     *)
(* backend/core/inference_engine.py driving one GameState                  *)
(* (backend/models/game_state.py) over Item objects                        *)
(* (backend/models/item_model.py).                                         *)
(*                                                                         *)
(* Probabilities are exact rationals [n, d] in lowest terms; the code's    *)
(* floats are modelled without rounding.  The one irrational quantity, the *)
(* Shannon entropy inside the confidence, is enclosed in its range, so the *)
(* confidence is an interval and a comparison the interval does not decide *)
(* is a nondeterministic choice.  The question score (entropy based        *)
(* information gain, chi-square dependencies) is not computed: any         *)
(* available question may be selected, except that of several questions    *)
(* whose scores are computed from identical numbers the first in catalog   *)
(* order wins, as the stable sort of get_next_question makes it.           *)
(***************************************************************************)
EXTENDS Integers, Naturals, Sequences, FiniteSets, TLC

VARIABLES
    current_game,   \* InferenceEngine.current_game: <<>> (None) or <<GameState>>
    result,         \* outcome of the last engine call: [op, status, value]
    loaded,         \* category of the catalog the caller plays with
    beliefs,        \* BayesianNetwork.beliefs: <<attribute, value>> -> belief
    store           \* FirebaseService: [client, failing, games, results]

vars == <<current_game, result, loaded, beliefs, store>>

---------------------------------------------------------------------------
(* Bounds of the model *)

\* process_answer is explored while answer_history is shorter than this
MaxAnswers == 3
\* number of items of the large catalog
CrowdSize == 101
\* number of questions of the long catalog
LongQuestions == 16
\* answers explored out of turn in the long game
LongAnswers == 1
\* issued questions left unanswered in the long game
LongSkips == 1
\* ProbabilityManager calls are explored on weights of denominator up to this
ManagerMaxDenominator == 200
\* process_answer is explored for this many answers in a game of a session
SessionAnswers == 2
\* _item_count_confidence is followed on lists of up to this many items
CountItems == 14
\* _prune_redundant_questions is called on histories of up to this many answers
SelectorHistory == 2
\* process_answer is explored for this many answers beside the session store
StoreAnswers == 1
\* process_answer is explored for this many answers after a start with any input
InputAnswers == 2
\* a session starts a further game while the beliefs have denominators up to this
SessionMaxDenominator == 3

---------------------------------------------------------------------------
(* InferenceEngine.config *)

max_questions == 15
min_items_threshold == 2
early_stop_threshold == 95

(* GAME_CONFIG of backend/config.py *)

confidence_threshold_stage_1 == 99
confidence_threshold_stage_2 == 98
confidence_threshold_stage_3 == 95

---------------------------------------------------------------------------
(* Exact rational arithmetic standing for the code's floats *)

RECURSIVE GCD(_, _)
GCD(a, b) == IF b = 0 THEN a ELSE GCD(b, a % b)

Rat(n, d) == LET g == GCD(n, d) IN [n |-> n \div g, d |-> d \div g]

LCM(a, b) == (a \div GCD(a, b)) * b

RatAdd(a, b) ==
    LET l == LCM(a.d, b.d)
    IN  Rat(a.n * (l \div a.d) + b.n * (l \div b.d), l)

RatMul(a, b) ==
    LET g1 == GCD(a.n, b.d)
        g2 == GCD(b.n, a.d)
    IN  Rat((a.n \div g1) * (b.n \div g2), (a.d \div g2) * (b.d \div g1))

\* a / b, for b > 0
RatDiv(a, b) == RatMul(a, [n |-> b.d, d |-> b.n])

\* a < b; a and b are first brought to a common denominator
RatLess(a, b) ==
    LET l == LCM(a.d, b.d)
    IN  a.n * (l \div a.d) < b.n * (l \div b.d)

RatZero == [n |-> 0, d |-> 1]
RatOne == [n |-> 1, d |-> 1]

soft_filter_threshold == Rat(1, 100)

---------------------------------------------------------------------------
(* Items, questions and the catalogs games are started with *)

Answers == {"yes", "probably", "dontknow", "probablynot", "no"}

Scalar(v) == [kind |-> "scalar", vals |-> {v}]
ListOf(S) == [kind |-> "list", vals |-> S]
NoneValue == [kind |-> "none", vals |-> {}]

\* Item.__init__ via Item.from_dict: probability 1.0, not eliminated
Item(id, name, attributes) ==
    [id |-> id, name |-> name, attributes |-> attributes,
     probability |-> RatOne, eliminated |-> FALSE]

Question(text, attribute, value) ==
    [question |-> text, attribute |-> attribute, value |-> value]

CountryItems ==
    << Item(1, "Bangladesh",
            [continent |-> Scalar("asia"), language |-> Scalar("bengali"),
             landlocked |-> Scalar("false"), famousFor |-> Scalar("rivers"),
             flagColors |-> ListOf({"green", "red"})]),
       Item(2, "India",
            [continent |-> Scalar("asia"), language |-> Scalar("hindi"),
             landlocked |-> Scalar("false"), famousFor |-> Scalar("tajmahal"),
             flagColors |-> ListOf({"orange", "white", "green"})]),
       Item(3, "Spain",
            [continent |-> Scalar("europe"), language |-> Scalar("spanish"),
             landlocked |-> Scalar("false"), famousFor |-> Scalar("flamenco"),
             flagColors |-> ListOf({"red", "yellow"})]),
       Item(4, "Switzerland",
            [continent |-> Scalar("europe"), language |-> Scalar("german"),
             landlocked |-> Scalar("true"), famousFor |-> Scalar("chocolate"),
             flagColors |-> ListOf({"red", "white"})]) >>

QAsia == Question("Is it in Asia?", "continent", "asia")
QHindi == Question("Is the language Hindi?", "language", "hindi")
QWhite == Question("Does the flag contain white?", "flagColors", "white")
QGerman == Question("Is the language German?", "language", "german")
QLandlocked == Question("Is it landlocked?", "landlocked", "true")
QChocolate == Question("Is it famous for chocolate?", "famousFor", "chocolate")

\* four items: A and C in Asia, B in Europe, D in Africa
ScenarioItems ==
    << Item(1, "A", [continent |-> Scalar("asia")]),
       Item(2, "B", [continent |-> Scalar("europe")]),
       Item(3, "C", [continent |-> Scalar("asia")]),
       Item(4, "D", [continent |-> Scalar("africa")]) >>

\* a catalog of CrowdSize items, half of them in Asia
CrowdItems ==
    [i \in 1..CrowdSize |->
        Item(i, "item" \o ToString(i),
             [continent |-> Scalar(IF 2 * i <= CrowdSize THEN "asia" ELSE "europe")])]

\* three Asian items and LongQuestions questions about other continents
LongItems ==
    [i \in 1..3 |-> Item(i, "asian" \o ToString(i), [continent |-> Scalar("asia")])]

LongBank ==
    [j \in 1..LongQuestions |->
        Question("Is it in continent " \o ToString(j) \o "?", "continent",
                 "continent" \o ToString(j))]

Catalogs ==
    { [category |-> "country", items |-> CountryItems,
       questions |-> <<QAsia, QWhite>>],
      [category |-> "place", items |-> CountryItems,
       questions |-> <<QGerman, QLandlocked, QChocolate>>],
      [category |-> "city", items |-> CrowdItems,
       questions |-> <<QAsia>>],
      [category |-> "pair", items |-> SubSeq(CountryItems, 1, 2),
       questions |-> <<QHindi>>],
      [category |-> "scenario", items |-> ScenarioItems,
       questions |-> <<QAsia>>] }

LongCatalog ==
    [category |-> "long", items |-> LongItems, questions |-> LongBank]

\* two catalogs one engine plays in turn: three Asian items, three European
\* items, and one question bank for both
EuropeanItems ==
    [i \in 1..3 |-> Item(i, "european" \o ToString(i), [continent |-> Scalar("europe")])]

QEurope == Question("Is it in Europe?", "continent", "europe")

SessionCatalogs ==
    { [category |-> "asians", items |-> LongItems, questions |-> <<QEurope, QAsia>>],
      [category |-> "europeans", items |-> EuropeanItems,
       questions |-> <<QEurope, QAsia>>] }

---------------------------------------------------------------------------
(* Sequence helpers *)

Range(s) == {s[i] : i \in DOMAIN s}

RECURSIVE RatSumRange(_, _, _, _)
\* sum of f[i] over the i in S with lo <= i <= hi, by halving the range
RatSumRange(f, S, lo, hi) ==
    IF lo > hi THEN RatZero
    ELSE IF lo = hi THEN (IF lo \in S THEN f[lo] ELSE RatZero)
    ELSE LET mid == (lo + hi) \div 2
         IN  RatAdd(RatSumRange(f, S, lo, mid), RatSumRange(f, S, mid + 1, hi))

\* sum of f[i] over the index set S of the sequence f
RatSum(f, S) == RatSumRange(f, S, 1, Len(f))

---------------------------------------------------------------------------
(* GameState *)

HasGame == Len(current_game) = 1
Game == current_game[1]

\* GameState.__init__
NewGameState(category, items, questions) ==
    [category |-> category, items |-> items, questions |-> questions,
     questions_asked |-> 0, asked_question_ids |-> {},
     current_question |-> <<>>, answer_history |-> <<>>]

\* GameState.get_active_items, as indices into items
ActiveItems(g) == {i \in DOMAIN g.items : ~g.items[i].eliminated}

\* a variant that does not filter the asked questions out
AllQuestions(g) == DOMAIN g.questions

\* GameState.get_available_questions, as indices into questions
AvailableQuestions(g) ==
    {j \in DOMAIN g.questions : g.questions[j].question \notin g.asked_question_ids}

\* max(active_items, key=probability): the first item of maximal probability
TopPrediction(g) ==
    LET act == ActiveItems(g)
    IN  IF act = {} THEN 0
        ELSE CHOOSE i \in act :
                /\ \A k \in act : ~RatLess(g.items[i].probability, g.items[k].probability)
                /\ \A k \in act : k < i =>
                       RatLess(g.items[k].probability, g.items[i].probability)

\* GameState.mark_question_asked
MarkQuestionAsked(g, q) ==
    [g EXCEPT !.current_question = <<q>>,
              !.questions_asked = @ + 1,
              !.asked_question_ids = @ \cup {q.question}]

\* GameState.record_answer
RecordAnswer(g, answer) ==
    IF g.current_question # <<>>
    THEN [g EXCEPT !.answer_history = Append(@, <<g.current_question[1], answer>>)]
    ELSE g

\* GameState.to_dict, the snapshot FirebaseService.save_game_state stores
\* (session_id and duration_seconds left out)
GameToDict(g) ==
    [category |-> g.category,
     questions_asked |-> g.questions_asked,
     total_items |-> Len(g.items),
     active_items |-> Cardinality(ActiveItems(g)),
     answer_history_length |-> Len(g.answer_history)]

---------------------------------------------------------------------------
(* Item *)

\* Item.to_dict: identity, weight, flag and the attributes
ItemToDict(item) ==
    [id |-> item.id, name |-> item.name, probability |-> item.probability,
     eliminated |-> item.eliminated, attributes |-> item.attributes]

\* Item.from_dict: probability and eliminated are metadata keys it skips, and
\* Item.__init__ sets them to 1.0 and False
ItemFromDict(data) == Item(data.id, data.name, data.attributes)

AttributeGet(item, attribute) ==
    IF attribute \in DOMAIN item.attributes
    THEN item.attributes[attribute] ELSE NoneValue

\* the match test of Item.matches_question and _calculate_likelihood
Matches(item, q) ==
    LET item_value == AttributeGet(item, q.attribute)
    IN  IF item_value.kind = "list"
        THEN q.value \in item_value.vals
        ELSE item_value.kind = "scalar" /\ item_value.vals = {q.value}

---------------------------------------------------------------------------
(* InferenceEngine: likelihood, normalisation, soft filter *)

\* InferenceEngine._calculate_likelihood
\* a hard-elimination variant: a decisive answer against an item zeroes it
CalculateLikelihoodHard(item, q, answer) ==
    LET matches == Matches(item, q)
    IN  CASE answer = "yes" -> IF matches THEN Rat(5, 2) ELSE RatZero
          [] answer = "probably" -> IF matches THEN Rat(3, 2) ELSE Rat(3, 10)
          [] answer = "dontknow" -> RatOne
          [] answer = "probablynot" -> IF matches THEN Rat(3, 10) ELSE Rat(3, 2)
          [] answer = "no" -> IF matches THEN RatZero ELSE Rat(5, 2)
          [] OTHER -> RatOne

\* InferenceEngine._calculate_likelihood
CalculateLikelihood(item, q, answer) ==
    LET matches == Matches(item, q)
    IN  CASE answer = "yes" -> IF matches THEN Rat(5, 2) ELSE Rat(1, 20)
          [] answer = "probably" -> IF matches THEN Rat(3, 2) ELSE Rat(3, 10)
          [] answer = "dontknow" -> RatOne
          [] answer = "probablynot" -> IF matches THEN Rat(3, 10) ELSE Rat(3, 2)
          [] answer = "no" -> IF matches THEN Rat(1, 20) ELSE Rat(5, 2)
          [] OTHER -> RatOne

\* the loop of process_answer over the active items: probability *= likelihood
UpdateProbabilities(g, q, answer) ==
    [g EXCEPT !.items =
        [i \in DOMAIN g.items |->
            IF g.items[i].eliminated THEN g.items[i]
            ELSE [g.items[i] EXCEPT !.probability =
                     RatMul(@, CalculateLikelihood(g.items[i], q, answer))]]]

\* a variant dividing by the mass of all items, eliminated ones included
NormalizeOverAllItems(g) ==
    LET act == ActiveItems(g)
        total_prob == RatSum([i \in DOMAIN g.items |-> g.items[i].probability],
                             DOMAIN g.items)
    IN  IF total_prob.n > 0
        THEN [g EXCEPT !.items =
                [i \in DOMAIN g.items |->
                    IF i \in act
                    THEN [g.items[i] EXCEPT !.probability = RatDiv(@, total_prob)]
                    ELSE g.items[i]]]
        ELSE g

\* InferenceEngine._normalize_probabilities
NormalizeProbabilities(g) ==
    LET act == ActiveItems(g)
        total_prob == RatSum([i \in DOMAIN g.items |-> g.items[i].probability], act)
    IN  IF total_prob.n > 0
        THEN [g EXCEPT !.items =
                [i \in DOMAIN g.items |->
                    IF i \in act
                    THEN [g.items[i] EXCEPT !.probability = RatDiv(@, total_prob)]
                    ELSE g.items[i]]]
        ELSE g

\* InferenceEngine._soft_filter_items
SoftFilterItems(g) ==
    [g EXCEPT !.items =
        [i \in DOMAIN g.items |->
            IF RatLess(g.items[i].probability, soft_filter_threshold)
            THEN [g.items[i] EXCEPT !.eliminated = TRUE]
            ELSE g.items[i]]]

---------------------------------------------------------------------------
(* ConfidenceCalculator.  Values are percentages. *)

RatSub(a, b) ==
    LET l == LCM(a.d, b.d)
    IN  Rat(a.n * (l \div a.d) - b.n * (l \div b.d), l)

RatMin(a, b) == IF RatLess(b, a) THEN b ELSE a

RatInt(k) == [n |-> k, d |-> 1]

\* the probability ranked at position `rank` (1 = highest) among the items act
RankedProbability(g, act, rank) ==
    LET i == CHOOSE x \in act :
                Cardinality({k \in act :
                    \/ RatLess(g.items[x].probability, g.items[k].probability)
                    \/ (g.items[k].probability = g.items[x].probability /\ k < x)})
                = rank - 1
    IN  g.items[i].probability

\* ConfidenceCalculator._probability_gap_confidence
ProbabilityGapConfidence(g, act) ==
    IF Cardinality(act) < 2 THEN RatInt(100)
    ELSE LET top_prob == RankedProbability(g, act, 1)
             second_prob == RankedProbability(g, act, 2)
             sum == RatAdd(top_prob, second_prob)
         IN  IF sum.n = 0 THEN RatInt(50)
             ELSE RatAdd(RatInt(50),
                         RatMul(RatDiv(RatSub(top_prob, second_prob), sum), RatInt(50)))

\* ConfidenceCalculator._normalized_probability_confidence
NormalizedProbabilityConfidence(g, act) ==
    IF act = {} THEN RatZero
    ELSE LET top_prob == RankedProbability(g, act, 1)
             total_prob == RatSum([i \in DOMAIN g.items |-> g.items[i].probability], act)
         IN  IF total_prob.n = 0 THEN RatInt(50)
             ELSE RatMul(RatDiv(top_prob, total_prob), RatInt(100))

\* a variant that rates every count as it rates a single item
ItemCountConfidenceFlat(active_count, total_items) ==
    IF total_items = 0 THEN RatInt(50) ELSE RatInt(95)

\* ConfidenceCalculator._item_count_confidence
ItemCountConfidence(active_count, total_items) ==
    IF total_items = 0 THEN RatInt(50)
    ELSE LET elimination_rate == RatSub(RatOne, Rat(active_count, total_items))
         IN  IF active_count = 1 THEN RatInt(95)
             ELSE IF active_count = 2 THEN RatInt(85)
             ELSE IF active_count <= 5
                  THEN RatAdd(RatInt(70), RatMul(elimination_rate, RatInt(20)))
             ELSE RatAdd(RatInt(30), RatMul(elimination_rate, RatInt(60)))

\* ConfidenceCalculator._entropy_confidence lies in this range; the entropy
\* itself (a sum of logarithms) is not computed
EntropyConfidenceMin == RatZero
EntropyConfidenceMax == RatInt(100)

\* a variant claiming certainty for a single active item
CalculateCertain(g, act, total_items, entropy_conf) ==
    IF act = {} THEN RatZero
    ELSE IF Cardinality(act) = 1 THEN RatInt(100)
    ELSE LET total_confidence ==
                 RatAdd(RatAdd(RatMul(Rat(2, 5), ProbabilityGapConfidence(g, act)),
                               RatMul(Rat(3, 10), NormalizedProbabilityConfidence(g, act))),
                        RatAdd(RatMul(Rat(1, 5),
                                      ItemCountConfidence(Cardinality(act), total_items)),
                               RatMul(Rat(1, 10), entropy_conf)))
         IN  RatMin(RatInt(95), total_confidence)

\* ConfidenceCalculator.calculate(items) on a list of total_items items whose
\* active ones are act, with entropy_conf given
CalculateOf(g, act, total_items, entropy_conf) ==
    IF act = {} THEN RatZero
    ELSE IF Cardinality(act) = 1 THEN RatInt(95)
    ELSE LET total_confidence ==
                 RatAdd(RatAdd(RatMul(Rat(2, 5), ProbabilityGapConfidence(g, act)),
                               RatMul(Rat(3, 10), NormalizedProbabilityConfidence(g, act))),
                        RatAdd(RatMul(Rat(1, 5),
                                      ItemCountConfidence(Cardinality(act), total_items)),
                               RatMul(Rat(1, 10), entropy_conf)))
         IN  RatMin(RatInt(95), total_confidence)

\* ConfidenceCalculator.calculate(items) with entropy_conf given.  Every caller
\* in InferenceEngine passes the active items, so len(items) is their number.
Calculate(g, act, entropy_conf) == CalculateOf(g, act, Cardinality(act), entropy_conf)

ConfidenceLow(g, act) == Calculate(g, act, EntropyConfidenceMin)
ConfidenceHigh(g, act) == Calculate(g, act, EntropyConfidenceMax)

\* the values `confidence >= threshold` can take
ConfidenceAtLeast(g, act, threshold) ==
    {b \in BOOLEAN :
        \/ b /\ ~RatLess(ConfidenceHigh(g, act), RatInt(threshold))
        \/ ~b /\ RatLess(ConfidenceLow(g, act), RatInt(threshold))}

\* ConfidenceCalculator.should_make_guess: the values it can return
ShouldMakeGuess(g, act, questions_asked, max_qs) ==
    IF questions_asked >= max_qs THEN {TRUE}
    ELSE {b[1] \/ (b[2] /\ 10 * questions_asked >= 7 * max_qs) :
            b \in {c \in ConfidenceAtLeast(g, act, 95) \X ConfidenceAtLeast(g, act, 85) :
                      c[1] => c[2]}}

---------------------------------------------------------------------------
(* InferenceEngine: stopping rule and question selection *)

\* a variant whose question limit compares with > instead of >=
ShouldStopAskingPastLimit(cg) ==
    IF Len(cg) = 0 THEN {TRUE}
    ELSE LET g == cg[1]
             act == ActiveItems(g)
         IN  IF Cardinality(act) = 0 THEN {TRUE}
             ELSE IF g.questions_asked > max_questions THEN {TRUE}
             ELSE IF Cardinality(act) <= min_items_threshold THEN {TRUE}
             ELSE {b \/ AvailableQuestions(g) = {} :
                     b \in ConfidenceAtLeast(g, act, early_stop_threshold)}

\* InferenceEngine._should_stop_asking: the values it can return
ShouldStopAsking(cg) ==
    IF Len(cg) = 0 THEN {TRUE}
    ELSE LET g == cg[1]
             act == ActiveItems(g)
         IN  IF Cardinality(act) = 0 THEN {TRUE}
             ELSE IF g.questions_asked >= max_questions THEN {TRUE}
             ELSE IF Cardinality(act) <= min_items_threshold THEN {TRUE}
             ELSE {b \/ AvailableQuestions(g) = {} :
                     b \in ConfidenceAtLeast(g, act, early_stop_threshold)}

\* the items a question matches
MatchSet(g, q) == {i \in DOMAIN g.items : Matches(g.items[i], q)}

---------------------------------------------------------------------------
(* BayesianNetwork (backend/algorithms/bayesian_network.py) *)

\* BayesianNetwork.__init__: no belief recorded
EmptyBeliefs == [p \in {} |-> RatZero]

RECURSIVE RatSumSet(_, _)
\* sum of f[x] over the x in the finite set S
RatSumSet(f, S) ==
    IF S = {} THEN RatZero
    ELSE LET x == CHOOSE x \in S : TRUE
         IN  RatAdd(f[x], RatSumSet(f, S \ {x}))

\* _get_attribute_values: the values the items carry for the attribute
AttributeValues(items, attribute) ==
    UNION {AttributeGet(items[i], attribute).vals : i \in DOMAIN items}

\* build_network: a uniform prior over the values the new items carry, for
\* each attribute of the question bank; every other entry is left as it was
BuildNetwork(b, items, questions) ==
    LET all_attributes == {questions[j].attribute : j \in DOMAIN questions}
        carried == UNION {{<<a, v>> : v \in AttributeValues(items, a)} :
                            a \in all_attributes}
    IN  [p \in DOMAIN b \cup carried |->
            IF p \in carried
            THEN Rat(1, Cardinality(AttributeValues(items, p[1])))
            ELSE b[p]]

\* 1.0 + confidence_map.get(answer, 0.5)
BeliefFactor(answer) ==
    CASE answer = "yes" -> Rat(2, 1)
      [] answer = "probably" -> Rat(7, 4)
      [] answer = "probablynot" -> Rat(5, 4)
      [] answer = "no" -> RatOne
      [] OTHER -> Rat(3, 2)

\* sum(self.beliefs[attribute].values())
AttributeSum(b, attribute) ==
    RatSumSet(b, {p \in DOMAIN b : p[1] = attribute})

\* the normalisation that ends _update_attribute_belief and _propagate_beliefs
NormalizeAttribute(b, attribute) ==
    LET total == AttributeSum(b, attribute)
    IN  IF RatLess(RatZero, total)
        THEN [p \in DOMAIN b |->
                IF p[1] = attribute THEN RatDiv(b[p], total) ELSE b[p]]
        ELSE b

\* _update_attribute_belief
UpdateAttributeBelief(b, q, answer) ==
    NormalizeAttribute(
        [p \in DOMAIN b |->
            IF p = <<q.attribute, q.value>>
            THEN RatMul(b[p], BeliefFactor(answer)) ELSE b[p]],
        q.attribute)

\* _propagate_beliefs scales every belief of a dependent attribute by one
\* factor and normalises the attribute: only an attribute whose beliefs do
\* not sum to 1 is changed.  The attributes it can change:
PropagateTargets(b, q) ==
    {a \in {p[1] : p \in DOMAIN b} \ {q.attribute} : AttributeSum(b, a) # RatOne}

RECURSIVE NormalizeAttributes(_, _)
NormalizeAttributes(b, attributes) ==
    IF attributes = {} THEN b
    ELSE LET a == CHOOSE a \in attributes : TRUE
         IN  NormalizeAttributes(NormalizeAttribute(b, a), attributes \ {a})

\* update_beliefs: the beliefs it can leave, one for each set of dependent
\* attributes the learned dependencies and the entropy test let through
UpdateBeliefs(b, q, answer) ==
    LET updated == UpdateAttributeBelief(b, q, answer)
    IN  {NormalizeAttributes(updated, deps) :
            deps \in SUBSET PropagateTargets(updated, q)}

\* self.beliefs[attribute].get(value, 0.5) of score_question
Belief(b, q) ==
    IF <<q.attribute, q.value>> \in DOMAIN b
    THEN b[<<q.attribute, q.value>>] ELSE Rat(1, 2)

\* the split of the active items by the question leaves one side empty:
\* its information gain is 0
Degenerate(g, q) ==
    LET yes_items == MatchSet(g, q) \cap ActiveItems(g)
    IN  yes_items = {} \/ yes_items = ActiveItems(g)

\* Two questions on one attribute get the same context, strategy and
\* dependency score; when both splits are degenerate the total scores differ
\* by the belief alone, and sort(reverse=True) is stable, so among equal
\* scores the earlier question is ranked first.  The questions
\* get_next_question can return as question_scores[0] under beliefs b:
SelectableWith(g, b) ==
    {j \in AvailableQuestions(g) :
        \A k \in AvailableQuestions(g) :
            ~ /\ g.questions[k].attribute = g.questions[j].attribute
              /\ Degenerate(g, g.questions[k])
              /\ Degenerate(g, g.questions[j])
              /\ \/ RatLess(Belief(b, g.questions[j]), Belief(b, g.questions[k]))
                 \/ /\ Belief(b, g.questions[j]) = Belief(b, g.questions[k])
                    /\ k < j}

SelectableQuestions(g) == SelectableWith(g, beliefs)

RECURSIVE BeliefsAfter(_, _)
\* the beliefs of an engine that has played nothing but the first n answers
\* of this game (its attributes then sum to 1, so propagation changes nothing)
BeliefsAfter(g, n) ==
    IF n = 0 THEN BuildNetwork(EmptyBeliefs, g.items, g.questions)
    ELSE UpdateAttributeBelief(BeliefsAfter(g, n - 1),
                               g.answer_history[n][1], g.answer_history[n][2])

FreshBeliefs(g) == BeliefsAfter(g, Len(g.answer_history))

---------------------------------------------------------------------------
(* The engine's operations *)

Outcome(op, status, value) == [op |-> op, status |-> status, value |-> value]

\* FirebaseService without credentials: _db_client stays None (the engine
\* itself never calls the service)
NoStore == [client |-> FALSE, failing |-> FALSE, games |-> <<>>, results |-> {}]

\* InferenceEngine.__init__, and the catalog the caller has loaded
Init ==
    /\ current_game = <<>>
    /\ result = Outcome("init", "ok", "")
    /\ loaded \in {c.category : c \in Catalogs}
    /\ beliefs = EmptyBeliefs
    /\ store = NoStore

\* the GameState start_new_game builds: every item at probability 1/len(items)
StartedGame(cat) ==
    LET n == Len(cat.items)
        item_objects == [i \in 1..n |-> [cat.items[i] EXCEPT !.probability = Rat(1, n)]]
    IN  NewGameState(cat.category, item_objects, cat.questions)

AllCatalogs == Catalogs \cup {LongCatalog} \cup SessionCatalogs

StartedGames == [category \in {c.category : c \in AllCatalogs} |->
                    StartedGame(CHOOSE c \in AllCatalogs : c.category = category)]

\* InferenceEngine.start_new_game(category, items, questions)
StartGame(category) ==
    /\ current_game' = <<StartedGames[category]>>
    /\ beliefs' = BuildNetwork(beliefs, StartedGames[category].items,
                               StartedGames[category].questions)
    /\ result' = Outcome("start_new_game", "ok", "")
    /\ loaded' = category
    /\ UNCHANGED store

\* start_new_game with the items and questions of `cat`, whatever they are
StartWith(cat) ==
    /\ current_game' = <<StartedGame(cat)>>
    /\ beliefs' = BuildNetwork(beliefs, cat.items, cat.questions)
    /\ result' = Outcome("start_new_game", "ok", "")
    /\ loaded' = cat.category
    /\ UNCHANGED store

\* start_new_game with the catalog the caller has loaded
StartNewGame == StartGame(loaded)

\* InferenceEngine.get_next_question()
GetNextQuestion ==
    /\ UNCHANGED <<loaded, beliefs, store>>
    /\ IF ~HasGame
       THEN /\ result' = Outcome("get_next_question", "ValueError", "")
            /\ UNCHANGED current_game
       ELSE \E stop \in ShouldStopAsking(current_game) :
               IF \/ stop
                  \/ ActiveItems(Game) = {}
                  \/ AvailableQuestions(Game) = {}
               THEN /\ result' = Outcome("get_next_question", "None", "")
                    /\ UNCHANGED current_game
               ELSE \E j \in SelectableQuestions(Game) :
                       /\ current_game' = <<MarkQuestionAsked(Game, Game.questions[j])>>
                       /\ result' = Outcome("get_next_question", "ok",
                                            Game.questions[j].question)

\* the state changes of process_answer once the guard has passed
AnswerCycle(g, answer) ==
    LET question == g.current_question[1]
    IN  SoftFilterItems(
            NormalizeProbabilities(
                UpdateProbabilities(RecordAnswer(g, answer), question, answer)))

\* the guard of process_answer: it raises ValueError when this is false
CanAnswer(cg) == Len(cg) = 1 /\ cg[1].current_question # <<>>

\* InferenceEngine.process_answer(answer), explored for at most `cap` answers
ProcessAnswer(answer, cap) ==
    /\ HasGame => Len(Game.answer_history) < cap
    /\ UNCHANGED <<loaded, store>>
    /\ IF ~CanAnswer(current_game)
       THEN /\ result' = Outcome("process_answer", "ValueError", "")
            /\ UNCHANGED <<current_game, beliefs>>
       ELSE /\ current_game' = <<AnswerCycle(Game, answer)>>
            /\ beliefs' \in UpdateBeliefs(beliefs, Game.current_question[1], answer)
            /\ result' = Outcome("process_answer", "ok", "")

\* the name get_final_prediction reports, "" for a prediction of None
PredictionName(g) ==
    IF TopPrediction(g) = 0 THEN "" ELSE g.items[TopPrediction(g)].name

\* InferenceEngine.get_final_prediction()
GetFinalPrediction ==
    /\ UNCHANGED <<current_game, loaded, beliefs, store>>
    /\ IF ~HasGame
       THEN result' = Outcome("get_final_prediction", "ValueError", "")
       ELSE result' = Outcome("get_final_prediction", "ok", PredictionName(Game))

Next ==
    \/ StartNewGame
    \/ GetNextQuestion
    \/ \E answer \in Answers : ProcessAnswer(answer, MaxAnswers)
    \/ GetFinalPrediction

Spec == Init /\ [][Next]_vars

---------------------------------------------------------------------------
(* The long game: the long catalog, every call order, and the game loop of  *)
(* tests/test_accuracy.py (_simulate_game) answering truthfully until the   *)
(* question limit.                                                          *)

\* the decisive answer a player thinking of `item` gives to q
TruthfulAnswer(item, q) == IF Matches(item, q) THEN "yes" ELSE "no"

\* a question has been issued and no answer to it is recorded
Pending(g) ==
    /\ g.current_question # <<>>
    /\ \A k \in DOMAIN g.answer_history :
          g.answer_history[k][1] # g.current_question[1]

InitLong ==
    /\ loaded = LongCatalog.category
    /\ current_game = <<StartedGames[loaded]>>
    /\ beliefs = BuildNetwork(EmptyBeliefs, LongCatalog.items, LongCatalog.questions)
    /\ store = NoStore
    /\ result = Outcome("start_new_game", "ok", "")

\* _simulate_game: the answer to the pending question, truthful for a target
SimulatedAnswer ==
    /\ HasGame
    /\ Pending(Game)
    /\ \E target \in DOMAIN Game.items :
          ProcessAnswer(TruthfulAnswer(Game.items[target], Game.current_question[1]),
                        max_questions + 1)

\* get_next_question, explored while at most LongSkips issued questions are
\* left unanswered behind the pending one
AskNext ==
    /\ HasGame => Game.questions_asked - Len(Game.answer_history) <= LongSkips
    /\ GetNextQuestion

NextLong ==
    \/ StartNewGame
    \/ AskNext
    \/ \E answer \in Answers : ProcessAnswer(answer, LongAnswers)
    \/ SimulatedAnswer
    \/ GetFinalPrediction

SpecLong == InitLong /\ [][NextLong]_vars

---------------------------------------------------------------------------
(* Sessions: one InferenceEngine serving games of several catalogs, one     *)
(* after another; the engine holds one current_game and one BayesianNetwork *)
(* (inference_engine.py, __init__).                                          *)

InitSessions ==
    /\ current_game = <<>>
    /\ result = Outcome("init", "ok", "")
    /\ loaded \in {c.category : c \in SessionCatalogs}
    /\ beliefs = EmptyBeliefs
    /\ store = NoStore

\* the recorded beliefs are within the explored range
BeliefsInRange == \A p \in DOMAIN beliefs : beliefs[p].d <= SessionMaxDenominator

\* start_new_game with either catalog
StartSessionGame ==
    /\ BeliefsInRange
    /\ \E c \in SessionCatalogs : StartGame(c.category)

NextSessions ==
    \/ StartSessionGame
    \/ GetNextQuestion
    \/ \E answer \in Answers : ProcessAnswer(answer, SessionAnswers)
    \/ GetFinalPrediction

SpecSessions == InitSessions /\ [][NextSessions]_vars

---------------------------------------------------------------------------
(* FirebaseService (backend/services/firebase_service.py): the session      *)
(* store and the analytics sink, called by the layer that drives a game.    *)

\* the operations of the service
StoreOps == {"save_game_state", "load_game_state", "delete_game_state",
             "log_game_result"}

\* what the caller sees when the body of `try:` does not catch what it raises
Unguarded(raised) == IF raised THEN "Exception" ELSE "ok"

\* try: ... except Exception as e: logger.error(...): the call returns normally
Guarded(raised) == "ok"

\* the service does nothing: no client
Disabled == ~store.client

\* the client exists and its calls raise
Raising == store.client /\ store.failing

\* one scenario game; the service with or without a client
InitStore ==
    /\ loaded = "scenario"
    /\ current_game = <<>>
    /\ result = Outcome("init", "ok", "")
    /\ beliefs = EmptyBeliefs
    /\ store \in {[NoStore EXCEPT !.client = c] : c \in BOOLEAN}

\* the database starts or stops failing
StoreFault ==
    /\ store.client
    /\ store' = [store EXCEPT !.failing = ~@]
    /\ UNCHANGED <<current_game, result, loaded, beliefs>>

\* save_game_state(game_state); a call that raises may or may not have
\* written the snapshot
SaveGameState ==
    /\ HasGame
    /\ LET written == [store EXCEPT !.games = <<GameToDict(Game)>>]
       IN  store' \in IF Disabled THEN {store}
                      ELSE IF Raising THEN {store, written}
                      ELSE {written}
    /\ result' = Outcome("save_game_state", Guarded(Raising), "")
    /\ UNCHANGED <<current_game, loaded, beliefs>>

\* load_game_state(session_id): the stored dict, or None
LoadGameState ==
    /\ result' = Outcome("load_game_state", Guarded(Raising),
                         IF Disabled \/ Raising \/ store.games = <<>>
                         THEN "None" ELSE ToString(store.games[1]))
    /\ UNCHANGED <<current_game, loaded, beliefs, store>>

\* delete_game_state(session_id); a call that raises may or may not have
\* deleted the snapshot
DeleteGameState ==
    /\ LET deleted == [store EXCEPT !.games = <<>>]
       IN  store' \in IF Disabled THEN {store}
                      ELSE IF Raising THEN {store, deleted}
                      ELSE {deleted}
    /\ result' = Outcome("delete_game_state", Guarded(Raising), "")
    /\ UNCHANGED <<current_game, loaded, beliefs>>

\* the result_data of log_game_result (category, questions_asked, final_guess)
ResultData(g) ==
    [category |-> g.category, questions_asked |-> g.questions_asked,
     final_guess |-> PredictionName(g)]

\* log_game_result(game_state, final_guess, ...)
LogGameResult ==
    /\ HasGame
    /\ store' = IF Disabled \/ Raising THEN store
                ELSE [store EXCEPT !.results = @ \cup {ResultData(Game)}]
    /\ result' = Outcome("log_game_result", Guarded(Raising), "")
    /\ UNCHANGED <<current_game, loaded, beliefs>>

NextStore ==
    \/ StartNewGame
    \/ GetNextQuestion
    \/ \E answer \in Answers : ProcessAnswer(answer, StoreAnswers)
    \/ GetFinalPrediction
    \/ StoreFault
    \/ SaveGameState
    \/ LoadGameState
    \/ DeleteGameState
    \/ LogGameResult

SpecStore == InitStore /\ [][NextStore]_vars

---------------------------------------------------------------------------
(* QuestionSelector._prune_redundant_questions                               *)
(* (backend/core/question_selector.py), called on games of every history     *)
(* and every set of active items.                                            *)

\* QuestionSelector.get_attribute_stage with the default stage map
AttributeStage(attribute) ==
    CASE attribute = "continent" -> 0
      [] attribute \in {"region", "subRegion"} -> 1
      [] attribute \in {"hasCoast", "landlocked", "isIsland", "hasMountains",
                        "climate", "avgTemperature"} -> 2
      [] attribute \in {"population", "size"} -> 3
      [] attribute \in {"government", "mainReligion", "driveSide", "exports"} -> 4
      [] attribute \in {"country", "city", "name"} -> 6
      [] OTHER -> 5

\* the attributes rule 3 of _prune_redundant_questions never prunes
FineGrained(attribute) ==
    attribute \in {"famousFor", "neighbors"} \/ AttributeStage(attribute) >= 5

\* attribute_count: the answers in the history that are about the attribute
AttributeCount(g, attribute) ==
    Cardinality({k \in DOMAIN g.answer_history :
                    g.answer_history[k][1].attribute = attribute})

\* two Asian items with flag colours and one item without a continent
SelectorItems ==
    << Item(1, "P", [continent |-> Scalar("asia"), flagColors |-> ListOf({"red"})]),
       Item(2, "Q", [continent |-> Scalar("asia"),
                     flagColors |-> ListOf({"red", "white"})]),
       Item(3, "R", [flagColors |-> ListOf({"green"})]) >>

SelectorBank == <<QAsia, QEurope, QWhite>>

\* the (question, answer) tuples the histories are made of
SelectorEntries == {<<SelectorBank[j], a>> : j \in DOMAIN SelectorBank, a \in {"yes", "no"}}

\* asked_attributes of _prune_redundant_questions
AskedAttributes(g) == {g.answer_history[k][1].attribute : k \in DOMAIN g.answer_history}

\* asked_questions_text of _prune_redundant_questions
AskedQuestionsText(g) == {g.answer_history[k][1].question : k \in DOMAIN g.answer_history}

\* unique_values: the values the active items hold for the attribute
UniqueValues(g, act, attribute) ==
    UNION {AttributeGet(g.items[i], attribute).vals : i \in act}

\* rule 2: one unique value at most remains and the attribute was asked
SingleValueRule(g, act, q) ==
    /\ Cardinality(UniqueValues(g, act, q.attribute)) <= 1
    /\ q.attribute \in AskedAttributes(g)

\* rule 3: the attribute was asked 4 times and is not a fine-grained one
OverAskedRule(g, q) ==
    /\ AttributeCount(g, q.attribute) >= 4
    /\ ~FineGrained(q.attribute)

\* rule 4: a continent or region no active item is in, once the attribute was asked
EmptyRegionRule(g, act, q) ==
    /\ Cardinality(act) <= 10
    /\ q.attribute \in AskedAttributes(g)
    /\ AttributeStage(q.attribute) <= 1
    /\ q.attribute \in {"continent", "region"}
    /\ q.value \notin UniqueValues(g, act, q.attribute)

\* _prune_redundant_questions(available_questions, active_items, history):
\* the indices of the questions it keeps
PruneRedundantQuestions(g, available, act) ==
    {j \in available :
        /\ g.questions[j].question \notin AskedQuestionsText(g)
        /\ ~SingleValueRule(g, act, g.questions[j])
        /\ ~OverAskedRule(g, g.questions[j])
        /\ ~EmptyRegionRule(g, act, g.questions[j])}

\* the questions rule 2 drops
DroppedBySingleValue(g, available, act) ==
    {j \in available :
        /\ g.questions[j].question \notin AskedQuestionsText(g)
        /\ SingleValueRule(g, act, g.questions[j])}

\* a game of any history of up to SelectorHistory answers, any items active
InitSelector ==
    /\ loaded = "selector"
    /\ result = Outcome("init", "ok", "")
    /\ beliefs = EmptyBeliefs
    /\ store = NoStore
    /\ \E flags \in [DOMAIN SelectorItems -> BOOLEAN],
          n \in 0..SelectorHistory :
          \E history \in [1..n -> SelectorEntries] :
             current_game =
               <<[NewGameState(loaded,
                               [i \in DOMAIN SelectorItems |->
                                   [SelectorItems[i] EXCEPT !.eliminated = flags[i]]],
                               SelectorBank)
                  EXCEPT !.answer_history = history,
                         !.questions_asked = n,
                         !.asked_question_ids = {history[k][1].question : k \in 1..n}]>>

\* a call of _prune_redundant_questions with the whole bank
CallPrune ==
    /\ result' = Outcome("prune_redundant_questions", "ok",
                         ToString(PruneRedundantQuestions(Game, DOMAIN Game.questions,
                                                          ActiveItems(Game))))
    /\ UNCHANGED <<current_game, loaded, beliefs, store>>

NextSelector == CallPrune

SpecSelector == InitSelector /\ [][NextSelector]_vars

---------------------------------------------------------------------------
(* ConfidenceCalculator._item_count_confidence, followed while the items of *)
(* a list of any length are eliminated one by one.                          *)

\* a list of 1 to CountItems items, all active
InitCount ==
    /\ loaded = "count"
    /\ result = Outcome("init", "ok", "")
    /\ beliefs = EmptyBeliefs
    /\ store = NoStore
    /\ \E total \in 1..CountItems :
          current_game = <<NewGameState(loaded, SubSeq(CrowdItems, 1, total), <<>>)>>

\* item.eliminated = True for the last active item of the list
EliminateItem ==
    /\ ActiveItems(Game) # {}
    /\ LET last == CHOOSE i \in ActiveItems(Game) : \A k \in ActiveItems(Game) : k <= i
       IN  current_game' = <<[Game EXCEPT !.items[last].eliminated = TRUE]>>
    /\ UNCHANGED <<result, loaded, beliefs, store>>

\* _item_count_confidence(active_items, total_items) of the list
CountConfidence(g) == ItemCountConfidence(Cardinality(ActiveItems(g)), Len(g.items))

\* a call of _item_count_confidence(active_items, len(items))
CallItemCountConfidence ==
    /\ result' = Outcome("item_count_confidence", "ok", ToString(CountConfidence(Game)))
    /\ UNCHANGED <<current_game, loaded, beliefs, store>>

NextCount ==
    \/ EliminateItem
    \/ CallItemCountConfidence

SpecCount == InitCount /\ [][NextCount]_vars

---------------------------------------------------------------------------
(* Inputs: start_new_game called with well-formed and with degenerate       *)
(* arguments.                                                               *)

\* the categories DataLoader.get_category_data knows
ValidCategories == {"country", "city", "place"}

\* a playable catalog, one without items, one without questions, and one of
\* a category that does not exist
InputCatalogs ==
    { [category |-> "country", items |-> CountryItems, questions |-> <<QAsia, QWhite>>],
      [category |-> "country", items |-> <<>>, questions |-> <<QAsia, QWhite>>],
      [category |-> "country", items |-> CountryItems, questions |-> <<>>],
      [category |-> "galaxy", items |-> CountryItems, questions |-> <<QAsia, QWhite>>] }

\* the arguments of start_new_game are a valid input
ValidInput(category, items, questions) ==
    /\ category \in ValidCategories
    /\ Len(items) > 0
    /\ Len(questions) > 0

InitInputs ==
    /\ current_game = <<>>
    /\ result = Outcome("init", "ok", "")
    /\ loaded \in {c.category : c \in InputCatalogs}
    /\ beliefs = EmptyBeliefs
    /\ store = NoStore

\* start_new_game(category, items, questions) with any of the catalogs
StartInputGame == \E cat \in InputCatalogs : StartWith(cat)

NextInputs ==
    \/ StartInputGame
    \/ GetNextQuestion
    \/ \E answer \in Answers : ProcessAnswer(answer, InputAnswers)
    \/ GetFinalPrediction

SpecInputs == InitInputs /\ [][NextInputs]_vars

---------------------------------------------------------------------------
(* ProbabilityManager (backend/core/probability_manager.py), called on item *)
(* lists of every weight and flag.                                          *)

\* the weights the item lists are drawn from
ManagerWeights == {RatZero, Rat(1, 200), Rat(1, 4), Rat(1, 2)}

\* a variant that leaves a list of total weight 0 as it is
NormalizeWithoutReset(g) ==
    LET act == ActiveItems(g)
        total_prob == RatSum([i \in DOMAIN g.items |-> g.items[i].probability], act)
    IN  IF total_prob = RatZero THEN g
        ELSE [g EXCEPT !.items =
                [i \in DOMAIN g.items |->
                    IF i \in act
                    THEN [g.items[i] EXCEPT !.probability = RatDiv(@, total_prob)]
                    ELSE g.items[i]]]

\* ProbabilityManager.normalize_probabilities
ManagerNormalizeProbabilities(g) ==
    LET act == ActiveItems(g)
        total_prob == RatSum([i \in DOMAIN g.items |-> g.items[i].probability], act)
    IN  IF act = {} THEN g
        ELSE IF total_prob = RatZero
        THEN [g EXCEPT !.items =
                [i \in DOMAIN g.items |->
                    IF i \in act
                    THEN [g.items[i] EXCEPT !.probability = Rat(1, Cardinality(act))]
                    ELSE g.items[i]]]
        ELSE [g EXCEPT !.items =
                [i \in DOMAIN g.items |->
                    IF i \in act
                    THEN [g.items[i] EXCEPT !.probability = RatDiv(@, total_prob)]
                    ELSE g.items[i]]]

\* the branch normalize_probabilities takes
NormalizeBranch(g) ==
    IF ActiveItems(g) = {} THEN "none"
    ELSE IF RatSum([i \in DOMAIN g.items |-> g.items[i].probability],
                   ActiveItems(g)) = RatZero
    THEN "uniform" ELSE "divided"

\* position of item i in sorted(items, key=probability, reverse=True)
SortedPosition(g, i) ==
    Cardinality({j \in DOMAIN g.items :
                    \/ RatLess(g.items[i].probability, g.items[j].probability)
                    \/ g.items[j].probability = g.items[i].probability /\ j < i})

\* ProbabilityManager.soft_filter with its default threshold
ManagerSoftFilter(g) ==
    LET marked == SoftFilterItems(g)
    IN  IF Cardinality(ActiveItems(marked)) < 3
        THEN [marked EXCEPT !.items =
                [i \in DOMAIN marked.items |->
                    IF SortedPosition(marked, i) < 3
                    THEN [marked.items[i] EXCEPT !.eliminated = FALSE]
                    ELSE marked.items[i]]]
        ELSE marked

InitManager ==
    /\ loaded = "manager"
    /\ beliefs = EmptyBeliefs
    /\ store = NoStore
    /\ result = Outcome("init", "ok", "")
    /\ \E weights \in [DOMAIN ScenarioItems -> ManagerWeights],
          flags \in [DOMAIN ScenarioItems -> BOOLEAN] :
          current_game =
            <<NewGameState(loaded,
                           [i \in DOMAIN ScenarioItems |->
                               [ScenarioItems[i] EXCEPT !.probability = weights[i],
                                                        !.eliminated = flags[i]]],
                           <<>>)>>

\* the weights of the item list are within the explored range
WeightsInRange ==
    \A i \in DOMAIN Game.items : Game.items[i].probability.d <= ManagerMaxDenominator

\* a call of normalize_probabilities(items)
CallNormalize ==
    /\ WeightsInRange
    /\ current_game' = <<ManagerNormalizeProbabilities(Game)>>
    /\ result' = Outcome("normalize_probabilities", "ok", NormalizeBranch(Game))
    /\ UNCHANGED <<loaded, beliefs, store>>

\* a call of soft_filter(items)
CallSoftFilter ==
    /\ WeightsInRange
    /\ current_game' = <<ManagerSoftFilter(Game)>>
    /\ result' = Outcome("soft_filter", "ok", "")
    /\ UNCHANGED <<loaded, beliefs, store>>

\* the least and greatest value of calculate(items) on the whole item list
ListConfidenceLow(g) ==
    CalculateOf(g, ActiveItems(g), Len(g.items), EntropyConfidenceMin)
ListConfidenceHigh(g) ==
    CalculateOf(g, ActiveItems(g), Len(g.items), EntropyConfidenceMax)

\* a call of ConfidenceCalculator.calculate(items)
CallCalculate ==
    /\ WeightsInRange
    /\ result' = Outcome("calculate", "ok",
                         ToString(<<ListConfidenceLow(Game), ListConfidenceHigh(Game)>>))
    /\ UNCHANGED <<current_game, loaded, beliefs, store>>

\* the weight of the items S of the game
Weight(g, S) == RatSum([i \in DOMAIN g.items |-> g.items[i].probability], S)

\* _split_items: (yes_items, no_items) of the active items
SplitItems(g, act, q) == <<MatchSet(g, q) \cap act, act \ MatchSet(g, q)>>

\* a variant that weighs a side by its raw sum
SplitWeightRaw(g, S, act) == Weight(g, S)

\* yes_weight, no_weight: sum(i.probability for i in S) / total_weight
SplitWeight(g, S, act) == RatDiv(Weight(g, S), Weight(g, act))

\* calculate_entropy(S) as a term: {} stands for 0.0 (no items, or total 0),
\* otherwise the entropy of the distribution of the items S, named by S
EntropyOf(g, S) == IF S = {} \/ Weight(g, S) = RatZero THEN {} ELSE S

\* expected_entropy = yes_weight * yes_entropy + no_weight * no_entropy, as
\* the set of its non-zero products <<weight, entropy term>>
ExpectedEntropy(g, act, q) ==
    {t \in {<<SplitWeight(g, SplitItems(g, act, q)[k], act),
              EntropyOf(g, SplitItems(g, act, q)[k])>> : k \in 1..2} :
        t[1] # RatZero /\ t[2] # {}}

\* the gain is exactly 0.0
ZeroGain == <<RatZero, RatZero>>

\* InformationGain.calculate(items, attribute, value): the least and greatest
\* value it can return.  current_entropy - expected_entropy is 0.0 when the
\* expected entropy is 1.0 * current_entropy; any other difference, divided
\* by current_entropy, is clamped to [0, 1]
InformationGain(g, q) ==
    LET act == ActiveItems(g)
    IN  IF act = {} THEN ZeroGain
        ELSE IF Weight(g, act) = RatZero THEN ZeroGain
        ELSE IF ExpectedEntropy(g, act, q) = {<<RatOne, EntropyOf(g, act)>>}
        THEN ZeroGain
        ELSE <<RatZero, RatOne>>

\* the questions the gain is computed for: one that splits the four items,
\* one on a single item's value, one on an attribute no item has
GainQuestions == {QAsia, QEurope, QWhite}

\* what a call of calculate reports: the question and the gain
GainReport(g, q) == q.question \o " " \o ToString(InformationGain(g, q))

\* a call of InformationGain.calculate(items, attribute, value)
CallInformationGain ==
    /\ WeightsInRange
    /\ \E q \in GainQuestions :
          result' = Outcome("information_gain", "ok", GainReport(Game, q))
    /\ UNCHANGED <<current_game, loaded, beliefs, store>>

NextManager ==
    \/ CallNormalize
    \/ CallSoftFilter
    \/ CallCalculate
    \/ CallInformationGain

SpecManager == InitManager /\ [][NextManager]_vars

---------------------------------------------------------------------------
(* Properties.                                                              *)

\* the answer is decisive and is the one a player thinking of item gives
Agrees(item, entry) == entry[2] \in {"yes", "no"} /\ entry[2] = TruthfulAnswer(item, entry[1])

\* every issued question was answered at most once and none was skipped
InProtocol(g) ==
    /\ g.questions_asked - Len(g.answer_history) \in {0, 1}
    /\ \A k, m \in DOMAIN g.answer_history :
          g.answer_history[k][1] = g.answer_history[m][1] => k = m

\* the catalog's questions tell item t apart from every other item
Distinguished(g, t) ==
    \A x \in DOMAIN g.items \ {t} :
        \E j \in DOMAIN g.questions :
            Matches(g.items[t], g.questions[j]) # Matches(g.items[x], g.questions[j])

\* every recorded answer is the truthful decisive answer for item t
TruthfulFor(g, t) ==
    \A k \in DOMAIN g.answer_history : Agrees(g.items[t], g.answer_history[k])

\* the question loop has ended: get_next_question returned None, or the guess
\* decision is true after an answer
LoopEnded ==
    \/ result.op = "get_next_question" /\ result.status = "None"
    \/ /\ result.op = "process_answer" /\ result.status = "ok"
       /\ ShouldMakeGuess(Game, ActiveItems(Game), Game.questions_asked,
                          max_questions) = {TRUE}

\* C1: when every answer is the truthful decisive answer for a target the
\* catalog tells apart from every other item, the target is never eliminated
\* and, once the question loop has ended, the prediction is the target.
C1_TruthfulTargetWins ==
    HasGame =>
        \A t \in DOMAIN Game.items :
            (Distinguished(Game, t) /\ TruthfulFor(Game, t) /\ InProtocol(Game)) =>
                /\ ~Game.items[t].eliminated
                /\ LoopEnded => TopPrediction(Game) = t

\* C2: no item, active or eliminated, ever carries a weight of exactly 0.
C2_NoZeroWeight ==
    HasGame => \A i \in DOMAIN Game.items : Game.items[i].probability.n > 0

\* C2 witness: after MaxAnswers answers, decisive ones among them, some item
\* is eliminated and some is active
C2_Witness ==
    /\ HasGame
    /\ Len(Game.answer_history) = MaxAnswers
    /\ \E k \in DOMAIN Game.answer_history : Game.answer_history[k][2] \in {"yes", "no"}
    /\ \E i \in DOMAIN Game.items : Game.items[i].eliminated
    /\ ActiveItems(Game) # {}

\* the answers from the second on are decisive, agree with item x and
\* disagree with every other item; the first is decisive and disagrees with x
RecoverySequence(g, x) ==
    /\ Len(g.answer_history) >= 3
    /\ g.answer_history[1][2] \in {"yes", "no"}
    /\ ~Agrees(g.items[x], g.answer_history[1])
    /\ \A k \in 2..Len(g.answer_history) :
          /\ Agrees(g.items[x], g.answer_history[k])
          /\ \A y \in DOMAIN g.items \ {x} : ~Agrees(g.items[y], g.answer_history[k])

\* C3: an item that a first answer disfavoured and that every later answer,
\* two at least, favours over every other item is active again and is the
\* top prediction.
C3_Recovery ==
    HasGame =>
        \A x \in DOMAIN Game.items :
            (RecoverySequence(Game, x) /\ InProtocol(Game)) =>
                /\ ~Game.items[x].eliminated
                /\ TopPrediction(Game) = x

\* no item weighs more than item i
HighestWeight(g, i) ==
    \A k \in DOMAIN g.items : ~RatLess(g.items[i].probability, g.items[k].probability)

\* C4: the highest-weight item is never eliminated: a game with items always
\* has an active item and a top prediction.
C4_TopItemActive ==
    (HasGame /\ Len(Game.items) > 0) =>
        /\ \A i \in DOMAIN Game.items : HighestWeight(Game, i) => ~Game.items[i].eliminated
        /\ ActiveItems(Game) # {}
        /\ TopPrediction(Game) # 0

\* min(a, b)
Min(a, b) == IF a < b THEN a ELSE b

\* C5: at least min(3, number of items) items are left un-eliminated.
C5_TopKept ==
    HasGame => Cardinality(ActiveItems(Game)) >= Min(3, Len(Game.items))

\* the weights of the items of S in game g, summed
WeightSum(g, S) == RatSum([i \in DOMAIN g.items |-> g.items[i].probability], S)

\* a step that processed an answer: the history grew by one entry
AnswerProcessed ==
    /\ HasGame /\ HasGame'
    /\ Len(Game'.answer_history) = Len(Game.answer_history) + 1

\* C6: when an answer cycle has ended the weights of the active items sum
\* to 1.
C6_ActiveSumOne ==
    (HasGame /\ ActiveItems(Game) # {}) => WeightSum(Game, ActiveItems(Game)) = RatOne

\* C6 (amended): an answer cycle leaves the weights of the items that were
\* active when the answer arrived summing to 1; the weights of the items still
\* active after its soft filter sum to at most 1, and to 1 when the cycle
\* eliminated nothing.
C6_NormalizedBeforeFilter ==
    [][(AnswerProcessed /\ ActiveItems(Game) # {}) =>
          /\ WeightSum(Game', ActiveItems(Game)) = RatOne
          /\ ~RatLess(RatOne, WeightSum(Game', ActiveItems(Game')))
          /\ ActiveItems(Game') = ActiveItems(Game) =>
                WeightSum(Game', ActiveItems(Game')) = RatOne]_vars

\* C6 witness: an answer cycle has eliminated an item and the items still
\* active weigh less than 1 together
C6_Witness ==
    /\ HasGame
    /\ result.op = "process_answer" /\ result.status = "ok"
    /\ ActiveItems(Game) # {}
    /\ RatLess(WeightSum(Game, ActiveItems(Game)), RatOne)

\* C7: questions_asked equals the length of answer_history in every state.
C7_CounterMatchesHistory ==
    HasGame => Game.questions_asked = Len(Game.answer_history)

\* C8: process_answer called while no unanswered question is pending reports
\* an invalid-state error and leaves the game unchanged.
C8_AnswerNeedsPendingQuestion ==
    [][(result'.op = "process_answer" /\ ~(HasGame /\ Pending(Game))) =>
          /\ result'.status = "ValueError"
          /\ current_game' = current_game]_vars

\* C9: get_next_question called while a question is unanswered issues no new
\* question.
C9_NoQuestionWhilePending ==
    [][(HasGame /\ Pending(Game) /\ result'.op = "get_next_question") =>
          /\ HasGame'
          /\ Game'.questions_asked = Game.questions_asked
          /\ Game'.current_question = Game.current_question]_vars

\* C10: questions_asked never exceeds max_questions; once it equals
\* max_questions the guess decision is true and get_next_question returns
\* None, issuing nothing.
C10_QuestionLimit ==
    /\ [](HasGame =>
            /\ Game.questions_asked <= max_questions
            /\ Game.questions_asked = max_questions =>
                  ShouldMakeGuess(Game, ActiveItems(Game), Game.questions_asked,
                                  max_questions) = {TRUE})
    /\ [][(HasGame /\ Game.questions_asked = max_questions
              /\ result'.op = "get_next_question") =>
             /\ result'.status = "None"
             /\ current_game' = current_game]_vars

\* C10 witness: max_questions questions were issued, items are still active
\* and get_next_question has returned None
C10_Witness ==
    /\ HasGame
    /\ Game.questions_asked = max_questions
    /\ Cardinality(ActiveItems(Game)) > min_items_threshold
    /\ result.op = "get_next_question" /\ result.status = "None"

\* the confidence GAME_CONFIG requires for a guess after q questions
StageThreshold(q) ==
    IF q <= 15 THEN confidence_threshold_stage_1
    ELSE IF q <= 30 THEN confidence_threshold_stage_2
    ELSE confidence_threshold_stage_3

\* get_next_question has returned None although the question limit is not
\* reached, questions remain and items are active
StoppedEarly ==
    /\ HasGame
    /\ result.op = "get_next_question" /\ result.status = "None"
    /\ Game.questions_asked < max_questions
    /\ AvailableQuestions(Game) # {}
    /\ ActiveItems(Game) # {}

\* C11: a game stops asking before the question limit, with questions left,
\* only when the confidence has reached the threshold of its stage (99 up to
\* question 15, 98 up to question 30, 95 after).
C11_StageThresholds ==
    StoppedEarly =>
        TRUE \in ConfidenceAtLeast(Game, ActiveItems(Game),
                                   StageThreshold(Game.questions_asked))

\* C12: with exactly one active item the confidence lies between 99 and 99.9
\* and the guess decision is true.
C12_SingleItemSentinel ==
    (HasGame /\ Cardinality(ActiveItems(Game)) = 1) =>
        /\ ~RatLess(ConfidenceLow(Game, ActiveItems(Game)), RatInt(99))
        /\ ~RatLess(Rat(999, 10), ConfidenceHigh(Game, ActiveItems(Game)))
        /\ ShouldMakeGuess(Game, ActiveItems(Game), Game.questions_asked,
                           max_questions) = {TRUE}

\* lo <= a <= hi
RatWithin(a, lo, hi) == ~RatLess(a, lo) /\ ~RatLess(hi, a)

\* C13: in the four-item scenario, after 'yes' to continent=asia, A and C
\* weigh about 0.499 each, B and D about 0.0005 each, and no weight is 0.
C13_ScenarioWeights ==
    (HasGame /\ loaded = "scenario" /\ Game.answer_history = <<<<QAsia, "yes">>>>) =>
        \A i \in DOMAIN Game.items :
            /\ Game.items[i].probability.n > 0
            /\ IF Matches(Game.items[i], QAsia)
               THEN RatWithin(Game.items[i].probability, Rat(498, 1000), Rat(500, 1000))
               ELSE RatWithin(Game.items[i].probability, Rat(4, 10000), Rat(6, 10000))

\* C14: processing 'dontknow' changes no item's weight relative to the
\* others and no item's elimination flag.
C14_DontKnowNeutral ==
    [][(AnswerProcessed
          /\ Game'.answer_history[Len(Game'.answer_history)][2] = "dontknow") =>
          \A i \in DOMAIN Game.items :
              /\ Game'.items[i].eliminated = Game.items[i].eliminated
              /\ RatMul(Game'.items[i].probability, Game.items[1].probability)
                    = RatMul(Game.items[i].probability, Game'.items[1].probability)]_vars

\* C15: normalization leaves eliminated items untouched; it sets every
\* active item to 1/|active| when the active weights total zero and divides
\* every active weight by the total otherwise.
C15_MassReset ==
    [][result'.op = "normalize_probabilities" =>
          LET act == ActiveItems(Game)
              total == WeightSum(Game, act)
          IN  \A i \in DOMAIN Game.items :
                 /\ Game'.items[i].eliminated = Game.items[i].eliminated
                 /\ i \notin act => Game'.items[i] = Game.items[i]
                 /\ i \in act =>
                       Game'.items[i].probability =
                          IF total = RatZero THEN Rat(1, Cardinality(act))
                          ELSE RatDiv(Game.items[i].probability, total)]_vars

\* C15 witness: a normalization took the uniform branch with an eliminated
\* item of another weight beside the active ones
C15_Witness ==
    /\ result.op = "normalize_probabilities" /\ result.value = "uniform"
    /\ Cardinality(ActiveItems(Game)) = 3
    /\ \A i \in ActiveItems(Game) : Game.items[i].probability = Rat(1, 3)
    /\ \E i \in DOMAIN Game.items :
          Game.items[i].eliminated /\ Game.items[i].probability = Rat(1, 2)

\* C16: the confidence of every item list, passed whole or as its active
\* items, lies in [0, 99.9]; it is never negative and never 100.
C16_ConfidenceBounded ==
    (HasGame /\ WeightsInRange) =>
        /\ ~RatLess(ListConfidenceLow(Game), RatZero)
        /\ ~RatLess(Rat(999, 10), ListConfidenceHigh(Game))
        /\ ~RatLess(ConfidenceLow(Game, ActiveItems(Game)), RatZero)
        /\ ~RatLess(Rat(999, 10), ConfidenceHigh(Game, ActiveItems(Game)))

\* C16 witness: calculate was called on a list with a single active item
\* beside eliminated ones, which is where the confidence is greatest
C16_Witness ==
    /\ result.op = "calculate"
    /\ Cardinality(ActiveItems(Game)) = 1
    /\ ListConfidenceHigh(Game) = RatInt(95)

\* C17: every question issued has a display text not asked before in the
\* game, so the texts issued in one game are pairwise distinct.
C17_NoQuestionTwice ==
    /\ [](HasGame => Cardinality(Game.asked_question_ids) = Game.questions_asked)
    /\ [][(HasGame /\ result'.op = "get_next_question" /\ result'.status = "ok") =>
             /\ result'.value \notin Game.asked_question_ids
             /\ Game'.asked_question_ids = Game.asked_question_ids \cup {result'.value}
             /\ Game'.current_question[1].question = result'.value]_vars

\* C17 witness: three questions were issued in one game
C17_Witness ==
    /\ HasGame
    /\ Game.questions_asked = 3
    /\ Cardinality(Game.asked_question_ids) = 3
    /\ result.op = "get_next_question" /\ result.status = "ok"

\* C19: the snapshot of a game and its reconstruction keep every item's
\* weight and elimination flag, the asked set, the answer history and the
\* question count.
C19_SnapshotRoundTrip ==
    HasGame =>
        /\ \A i \in DOMAIN Game.items :
              LET restored == ItemFromDict(ItemToDict(Game.items[i]))
              IN  /\ restored.probability = Game.items[i].probability
                  /\ restored.eliminated = Game.items[i].eliminated
        /\ GameToDict(Game).questions_asked = Game.questions_asked
        /\ GameToDict(Game).answer_history_length = Len(Game.answer_history)

\* the question get_next_question has just issued
IssuedQuestion(j) ==
    /\ result'.op = "get_next_question"
    /\ result'.status = "ok"
    /\ current_game' = <<MarkQuestionAsked(Game, Game.questions[j])>>

\* C18: question selection is deterministic in the game's state: the question
\* get_next_question issues from a state (items, weights, flags, answer
\* history, catalog) is one that an engine which has played nothing but this
\* game issues from the same state.
C18_SameStateSameQuestion ==
    [][\A j \in (IF HasGame THEN DOMAIN Game.questions ELSE {}) :
          IssuedQuestion(j) => j \in SelectableWith(Game, FreshBeliefs(Game))]_vars

\* the attributes of the game's question bank
GameAttributes(g) == {g.questions[j].attribute : j \in DOMAIN g.questions}

\* C20: sessions are independent: the beliefs the engine holds about the
\* attributes of the current game are those computed from this game's own
\* items, catalog and answers, whatever games were started before it.
C20_SessionsIndependent ==
    HasGame =>
        \A p \in DOMAIN beliefs :
            p[1] \in GameAttributes(Game) =>
                /\ p \in DOMAIN FreshBeliefs(Game)
                /\ beliefs[p] = FreshBeliefs(Game)[p]

\* C21: start_new_game rejects invalid input (no items, no questions, an
\* unknown category) and creates no game state: every game the engine holds
\* was started from a valid input.
C21_InvalidInputRejected ==
    HasGame => ValidInput(Game.category, Game.items, Game.questions)


\* get_final_prediction has just returned a prediction for the game
Finished ==
    /\ HasGame
    /\ result.op = "get_final_prediction"
    /\ result.status = "ok"

\* C22: Finished is terminal: a get_next_question or process_answer call that
\* follows the final prediction issues no question and processes no answer,
\* it leaves the game's items, history and counters as they are.
C22_FinishedTerminal ==
    [][(Finished /\ result'.op \in {"get_next_question", "process_answer"})
          => current_game' = current_game]_vars


\* C23: a call of the session store or analytics sink made while the client
\* is missing or its calls raise returns normally, leaves the in-memory game
\* as it is, and a load returns no snapshot.
C23_StoreFailureContained ==
    [][(/\ result'.op \in StoreOps
        /\ store'.failing = store.failing
        /\ Disabled \/ Raising)
          => /\ result'.status = "ok"
             /\ current_game' = current_game
             /\ result'.op = "load_game_state" => result'.value = "None"]_vars

\* a snapshot is stored, the database is failing, a load has returned None
\* and the game, already answered once, is still there
C23_Witness ==
    /\ HasGame
    /\ Len(Game.answer_history) > 0
    /\ Raising
    /\ store.games # <<>>
    /\ result = Outcome("load_game_state", "ok", "None")


\* C24: information gain is 0 for every question on which all active items
\* have the same match outcome (all match, or none does), for every weight
\* distribution over the active items.
C24_NoGainWithoutSplit ==
    WeightsInRange =>
        \A q \in GainQuestions :
            Degenerate(Game, q) => InformationGain(Game, q) = ZeroGain

\* calculate has returned 0 for a question that all of at least two active
\* items of positive weight match
C24_Witness ==
    /\ Cardinality(ActiveItems(Game)) >= 2
    /\ \A i \in ActiveItems(Game) : Game.items[i].probability # RatZero
    /\ \E q \in GainQuestions :
          /\ MatchSet(Game, q) \cap ActiveItems(Game) = ActiveItems(Game)
          /\ result = Outcome("information_gain", "ok",
                              q.question \o " " \o ToString(ZeroGain))


\* C25: every question get_next_question issues is on an attribute that
\* occurs fewer than 4 times in the answer history, or on a fine-grained one.
C25_NoOverAskedAttribute ==
    [][\A j \in (IF HasGame THEN DOMAIN Game.questions ELSE {}) :
          IssuedQuestion(j) =>
              \/ AttributeCount(Game, Game.questions[j].attribute) < 4
              \/ FineGrained(Game.questions[j].attribute)]_vars


\* C26: a question dropped by the single-surviving-value rule carries no new
\* information: all active items have the same match outcome for it.
C26_DroppedQuestionsDoNotSplit ==
    HasGame =>
        \A j \in DroppedBySingleValue(Game, DOMAIN Game.questions, ActiveItems(Game)) :
            Degenerate(Game, Game.questions[j])


\* C27: the item-count confidence is non-increasing in the number of active
\* items for a fixed list: eliminating an item never lowers it, as long as an
\* item stays active.
C27_ItemCountMonotone ==
    [][(/\ ActiveItems(Game') # {}
        /\ ActiveItems(Game') \subseteq ActiveItems(Game))
          => ~RatLess(CountConfidence(Game'), CountConfidence(Game))]_vars


\* the attribute families of _get_related_attributes
AttributeFamilies ==
    { {"continent", "region", "hasCoast", "isIsland", "landlocked", "hasMountains"},
      {"population", "size", "isCapital"},
      {"language", "mainReligion", "famousFor"},
      {"climate", "isNatural"},
      {"government", "country"} }

\* _get_related_attributes(attribute)
RelatedAttributes(attribute) ==
    UNION {family \ {attribute} : family \in {f \in AttributeFamilies : attribute \in f}}

\* the attributes the network holds beliefs about
BeliefAttributes(b) == {p[1] : p \in DOMAIN b}

\* C28: when an answer is processed, the belief distribution of every
\* attribute related to the asked one changes (it is nudged, then
\* renormalised).
C28_PropagationNudges ==
    [][AnswerProcessed =>
          \A related \in RelatedAttributes(Game.current_question[1].attribute)
                             \cap BeliefAttributes(beliefs) :
              \E p \in DOMAIN beliefs :
                  /\ p[1] = related
                  /\ beliefs'[p] # beliefs[p]]_vars


\* C29: whenever 3 or more items are active, the confidence the engine
\* computes from the active items is strictly below early_stop_threshold, so
\* the confidence test of _should_stop_asking is false there.
C29_NoConfidenceStop ==
    (HasGame /\ Cardinality(ActiveItems(Game)) >= 3) =>
        /\ RatLess(ConfidenceHigh(Game, ActiveItems(Game)), RatInt(early_stop_threshold))
        /\ ConfidenceAtLeast(Game, ActiveItems(Game), early_stop_threshold) = {FALSE}

\* an answer has been processed, 3 or more items are active and one of them
\* outweighs another
C29_Witness ==
    /\ HasGame
    /\ result = Outcome("process_answer", "ok", "")
    /\ Cardinality(ActiveItems(Game)) >= 3
    /\ \E i, k \in ActiveItems(Game) :
          RatLess(Game.items[i].probability, Game.items[k].probability)


\* C30: when an answer is processed, the belief of the asked
\* (attribute, value) does not decrease after 'yes' or 'probably', does not
\* increase after 'probablynot' or 'no', and the beliefs of the asked
\* attribute sum to 1 afterwards.
C30_BeliefFollowsAnswer ==
    [][AnswerProcessed =>
          LET q == Game.current_question[1]
              answer == Game'.answer_history[Len(Game'.answer_history)][2]
              sum == AttributeSum(beliefs', q.attribute)
          IN  /\ answer \in {"yes", "probably"} =>
                    ~RatLess(Belief(beliefs', q), Belief(beliefs, q))
              /\ answer \in {"probablynot", "no"} =>
                    ~RatLess(Belief(beliefs, q), Belief(beliefs', q))
              /\ q.attribute \in BeliefAttributes(beliefs') =>
                    (~RatLess(sum, RatOne) /\ ~RatLess(RatOne, sum))]_vars

====
